---- MODULE Spec2Model ----
(***************************************************************************)
(* Model of simd_access/reflection.hpp: the structure-of-simd reflection   *)
(* layer (simdized_value, simd_members, load, store, load_rvalue, where).  *)
(*                                                                         *)
(* Memory is a flat array of 4-byte cells; addresses and element sizes are *)
(* counted in cells.  A std::vector object is three 8-byte pointers        *)
(* (begin, end, end of storage), its elements live in a separate buffer.   *)
(***************************************************************************)
EXTENDS Integers, Sequences, FiniteSets, TLC

\* Number of lanes of every simd value (template parameter SimdSize).
SimdSize == 2

\* Largest runtime length of a std::vector in the scalar instances.
MaxLen == 2

Lanes == 1..SimdSize

-----------------------------------------------------------------------------
(* Scalar types T.                                                         *)

Leaf == [k |-> "leaf"]

PairT(a, b) == [k |-> "pair", first |-> a, second |-> b]

VecT(e) == [k |-> "vec", elem |-> e]

\* The scalar types the operations are instantiated with.
Types ==
  { Leaf,
    PairT(Leaf, Leaf),
    PairT(Leaf, PairT(Leaf, Leaf)),
    VecT(Leaf),
    PairT(VecT(Leaf), VecT(Leaf)),
    PairT(Leaf, VecT(Leaf)),
    VecT(PairT(Leaf, Leaf)),
    VecT(VecT(Leaf)) }

-----------------------------------------------------------------------------
(* Values.  A scalar leaf is [k |-> "scalar", v], a scalar leaf that lives *)
(* in memory is the lvalue [k |-> "ref", addr], a simd leaf is             *)
(* [k |-> "simd", lanes]; pairs and vectors are the same for both.         *)

IsLeafVal(x) == x.k \in {"scalar", "ref", "simd"}

Simd(l) == [k |-> "simd", lanes |-> l]

PairV(a, b) == [k |-> "pair", first |-> a, second |-> b]

VecV(es) == [k |-> "vec", elems |-> es]

\* stdx::fixed_size_simd<T, SimdSize>(): value-initialised lanes.
ZeroSimd == Simd([i \in Lanes |-> 0])

RECURSIVE DefaultMirror(_)
\* A default-constructed object of type decltype(simdized_value<N>(declval<T>())).
DefaultMirror(T) ==
  IF T.k = "leaf" THEN ZeroSimd
  ELSE IF T.k = "pair" THEN PairV(DefaultMirror(T.first), DefaultMirror(T.second))
  ELSE VecV(<< >>)

\* result(v.size()): the number of elements the mirror of a vector is built with.
VecMirrorSize(v) == Len(v.elems)

RECURSIVE simdized_value(_, _)
\* simdized_value<SimdSize>(v) for v of type T.
simdized_value(T, v) ==
  IF T.k = "leaf" THEN ZeroSimd
  ELSE IF T.k = "pair"
    THEN PairV(simdized_value(T.first, v.first), simdized_value(T.second, v.second))
  ELSE VecV([j \in 1..VecMirrorSize(v) |-> DefaultMirror(T.elem)])

-----------------------------------------------------------------------------
(* Paths name a sub-object: a sequence of steps <<"first", 0>>,            *)
(* <<"second", 0>> or <<"elem", i>> (i counted from 0).                    *)

StepFirst == <<"first", 0>>

StepSecond == <<"second", 0>>

StepElem(i) == <<"elem", i>>

RECURSIVE GetAt(_, _)
GetAt(t, p) ==
  IF p = << >> THEN t
  ELSE IF Head(p)[1] = "first" THEN GetAt(t.first, Tail(p))
  ELSE IF Head(p)[1] = "second" THEN GetAt(t.second, Tail(p))
  ELSE GetAt(t.elems[Head(p)[2] + 1], Tail(p))

RECURSIVE SetAt(_, _, _)
SetAt(t, p, x) ==
  IF p = << >> THEN x
  ELSE IF Head(p)[1] = "first" THEN [t EXCEPT !.first = SetAt(t.first, Tail(p), x)]
  ELSE IF Head(p)[1] = "second" THEN [t EXCEPT !.second = SetAt(t.second, Tail(p), x)]
  ELSE [t EXCEPT !.elems[Head(p)[2] + 1] = SetAt(t.elems[Head(p)[2] + 1], Tail(p), x)]

-----------------------------------------------------------------------------
(* simd_members: the list of calls func(d, s) it makes, in call order,     *)
(* each call named by the path of d and the path of s.                     *)

\* d.size(): the bound e of the loop over a vector.
LoopBoundShort(d, s) == IF Len(d.elems) > 0 THEN Len(d.elems) - 1 ELSE 0

LoopBound(d, s) == Len(d.elems)

\* s[i]: the source element paired with destination element i.
SrcIndex(i) == i

\* The order of the two recursive calls of the pair overload.
PairOrderSwapped == <<StepSecond, StepFirst>>

PairOrder == <<StepFirst, StepSecond>>

RECURSIVE simd_members(_, _, _, _)
RECURSIVE VecLoop(_, _, _, _, _, _)
simd_members(d, s, dp, sp) ==
  IF IsLeafVal(d) THEN << [d |-> dp, s |-> sp] >>
  ELSE IF d.k = "vec" THEN VecLoop(d, s, dp, sp, 0, LoopBound(d, s))
  ELSE simd_members(GetAt(d, <<PairOrder[1]>>), GetAt(s, <<PairOrder[1]>>),
                    Append(dp, PairOrder[1]), Append(sp, PairOrder[1]))
       \o simd_members(GetAt(d, <<PairOrder[2]>>), GetAt(s, <<PairOrder[2]>>),
                       Append(dp, PairOrder[2]), Append(sp, PairOrder[2]))

VecLoop(d, s, dp, sp, i, e) ==
  IF i < e
    THEN simd_members(d.elems[i + 1], s.elems[SrcIndex(i) + 1],
                      Append(dp, StepElem(i)), Append(sp, StepElem(SrcIndex(i))))
         \o VecLoop(d, s, dp, sp, i + 1, e)
    ELSE << >>

-----------------------------------------------------------------------------
(* Object layout (cells of 4 bytes, LP64: a pointer is two cells).         *)

\* sizeof(std::vector<T>) in cells: begin, end, end-of-storage pointers.
VecCells == 6

\* alignof a pointer in cells.
PtrAlign == 2

Max(a, b) == IF a > b THEN a ELSE b

RoundUp(n, a) == ((n + a - 1) \div a) * a

RECURSIVE Alignof(_)
Alignof(T) ==
  IF T.k = "leaf" THEN 1
  ELSE IF T.k = "vec" THEN PtrAlign
  ELSE Max(Alignof(T.first), Alignof(T.second))

RECURSIVE Sizeof(_)
RECURSIVE OffsetSecond(_)
Sizeof(T) ==
  IF T.k = "leaf" THEN 1
  ELSE IF T.k = "vec" THEN VecCells
  ELSE RoundUp(OffsetSecond(T) + Sizeof(T.second), Alignof(T))

\* offsetof(std::pair<A, B>, second).
OffsetSecond(T) == RoundUp(Sizeof(T.first), Alignof(T.second))

\* The object of type T at address a, as a tree of lvalues: what *base_,
\* .first, .second and operator[] designate in memory m.
RECURSIVE ObjAt(_, _, _)
ObjAt(m, a, T) ==
  IF T.k = "leaf" THEN [k |-> "ref", addr |-> a]
  ELSE IF T.k = "pair"
    THEN PairV(ObjAt(m, a, T.first), ObjAt(m, a + OffsetSecond(T), T.second))
  ELSE VecV([j \in 1..((m[a + 2] - m[a]) \div Sizeof(T.elem)) |->
               ObjAt(m, m[a] + (j - 1) * Sizeof(T.elem), T.elem)])

\* The value of the object of type T at address a: every lvalue read.
RECURSIVE ValAt(_, _, _)
ValAt(m, a, T) ==
  IF T.k = "leaf" THEN [k |-> "scalar", v |-> m[a]]
  ELSE IF T.k = "pair"
    THEN PairV(ValAt(m, a, T.first), ValAt(m, a + OffsetSecond(T), T.second))
  ELSE VecV([j \in 1..((m[a + 2] - m[a]) \div Sizeof(T.elem)) |->
               ValAt(m, m[a] + (j - 1) * Sizeof(T.elem), T.elem)])

-----------------------------------------------------------------------------
(* The scalar instances the caller has in memory: two blocks of SimdSize   *)
(* instances of T, block A with distinct leaf values and block B zeroed,   *)
(* every vector of runtime length L with its buffer on the heap.           *)

\* A scalar value of type T whose vectors have length L; every leaf gets a
\* value of its own, derived from tag (all 0 with zero = TRUE).
RECURSIVE MkVal(_, _, _, _)
MkVal(T, L, tag, zero) ==
  IF T.k = "leaf" THEN [k |-> "scalar", v |-> IF zero THEN 0 ELSE tag]
  ELSE IF T.k = "pair"
    THEN PairV(MkVal(T.first, L, tag * 10 + 1, zero), MkVal(T.second, L, tag * 10 + 2, zero))
  ELSE VecV([j \in 1..L |-> MkVal(T.elem, L, tag * 10 + 2 + j, zero)])

\* Constructing value v of type T at address a: the cells written (w) and
\* the new top of the heap; gap cells are left between heap buffers.
RECURSIVE Place(_, _, _, _, _)
RECURSIVE PlaceElems(_, _, _, _, _, _)
Place(T, v, a, top, gap) ==
  IF T.k = "leaf" THEN [w |-> a :> v.v, top |-> top]
  ELSE IF T.k = "pair"
    THEN LET r1 == Place(T.first, v.first, a, top, gap)
             r2 == Place(T.second, v.second, a + OffsetSecond(T), r1.top, gap)
         IN  [w |-> r1.w @@ r2.w, top |-> r2.top]
  ELSE IF Len(v.elems) = 0
    THEN [w |-> [c \in a..(a + VecCells - 1) |-> 0], top |-> top]
  ELSE LET buf == RoundUp(top, PtrAlign)
           end == buf + Len(v.elems) * Sizeof(T.elem)
           hdr == [c \in a..(a + VecCells - 1) |->
                     IF c = a THEN buf ELSE IF c \in {a + 2, a + 4} THEN end ELSE 0]
           r   == PlaceElems(T.elem, v.elems, 1, buf, end + gap, gap)
       IN  [w |-> hdr @@ r.w, top |-> r.top]

PlaceElems(E, vs, j, buf, top, gap) ==
  IF j > Len(vs) THEN [w |-> << >>, top |-> top]
  ELSE LET r1 == Place(E, vs[j], buf + (j - 1) * Sizeof(E), top, gap)
           r2 == PlaceElems(E, vs, j + 1, buf, r1.top, gap)
       IN  [w |-> r1.w @@ r2.w, top |-> r2.top]

\* Address of the first instance of block A (location.base_ of the loads).
ABase == 2

\* Address of the first instance of block B (location.base_ of the stores).
BBase(ES) == ABase + SimdSize * ES

HeapBase(ES) == BBase(ES) + SimdSize * ES

\* Instances 0..SimdSize-1 of block A and of block B, one after the other.
RECURSIVE PlaceBlocks(_, _, _, _, _, _)
PlaceBlocks(T, L, ES, n, top, gap) ==
  IF n = 2 * SimdSize THEN [w |-> << >>, top |-> top]
  ELSE LET inA == n < SimdSize
           r1 == Place(T, MkVal(T, L, n + 1, ~inA), ABase + n * ES, top, gap)
           r2 == PlaceBlocks(T, L, ES, n + 1, r1.top, gap)
       IN  [w |-> r1.w @@ r2.w, top |-> r2.top]

\* The memory: the cells of the instances, every other cell holding junk.
InitialMemory(T, L, ES, gap, junk) ==
  LET r == PlaceBlocks(T, L, ES, 0, HeapBase(ES), gap)
  IN  [c \in 0..(r.top + SimdSize * ES) |-> IF c \in DOMAIN r.w THEN r.w[c] ELSE junk]

-----------------------------------------------------------------------------
(* Locations and the leaf-level transfers of the surrounding library.      *)

linear_location(a) == [kind |-> "linear", base |-> a]

indexed_location(a, ix) == [kind |-> "indexed", base |-> a, indices |-> ix]

\* get_index(idx, i): the element position of lane i (lanes counted from 1).
get_index(ix, i) == ix[i]

\* Address of lane i of a leaf location: base + i * ElementSize, respectively
\* base + indices[i] * ElementSize.
LaneAddr(loc, i, ES) ==
  IF loc.kind = "linear" THEN loc.base + (i - 1) * ES
  ELSE loc.base + get_index(loc.indices, i) * ES

\* load<ElementSize>(location) for an arithmetic T.
LeafLoad(m, loc, ES) == Simd([i \in Lanes |-> m[LaneAddr(loc, i, ES)]])

\* store<ElementSize>(location, simd) for an arithmetic T, lane after lane.
RECURSIVE LeafStore(_, _, _, _, _)
LeafStore(m, loc, ES, x, i) ==
  IF i > SimdSize THEN m
  ELSE LeafStore([m EXCEPT ![LaneAddr(loc, i, ES)] = x.lanes[i]], loc, ES, x, i + 1)

\* stdx::where(mask, d) = s on one simd leaf.
LeafWhere(msk, d, s) == Simd([i \in Lanes |-> IF msk[i] THEN s.lanes[i] ELSE d.lanes[i]])

-----------------------------------------------------------------------------
(* load, store, load_rvalue and where_expression::operator=.               *)

\* The location handed to the leaf-level transfer: that of the visited
\* scalar member (&src, &dest), with the indices of the parent location.
ChildLocationParent(loc, a) == loc

ChildLocation(loc, a) == [loc EXCEPT !.base = a]

\* The calls of the lambda of load, applied in order to result.
RECURSIVE LoadMembers(_, _, _, _, _, _, _)
LoadMembers(m, loc, T, ES, vs, n, result) ==
  IF n > Len(vs) THEN result
  ELSE LoadMembers(m, loc, T, ES, vs, n + 1,
         SetAt(result, vs[n].d,
               LeafLoad(m, ChildLocation(loc, GetAt(ObjAt(m, loc.base, T), vs[n].s).addr), ES)))

\* load<ElementSize>(location) for a composite T.
load(m, loc, T, ES) ==
  LET result == simdized_value(T, ObjAt(m, loc.base, T))
      vs     == simd_members(result, ObjAt(m, loc.base, T), << >>, << >>)
  IN  [result |-> LoadMembers(m, loc, T, ES, vs, 1, result), visits |-> vs,
       d |-> result, s |-> ObjAt(m, loc.base, T)]

\* The calls of the lambda of store, applied in order to the memory.
RECURSIVE StoreMembers(_, _, _, _, _, _, _)
StoreMembers(m, loc, T, ES, source, vs, n) ==
  IF n > Len(vs) THEN m
  ELSE StoreMembers(
         LeafStore(m, ChildLocation(loc, GetAt(ObjAt(m, loc.base, T), vs[n].d).addr), ES,
                   GetAt(source, vs[n].s), 1),
         loc, T, ES, source, vs, n + 1)

\* store<ElementSize>(location, expr) for a composite T.
store_without_last_member(m, loc, T, ES, source) ==
  LET vs == simd_members(ObjAt(m, loc.base, T), source, << >>, << >>)
  IN  [mem |-> StoreMembers(m, loc, T, ES, source,
                            IF vs = << >> THEN vs ELSE SubSeq(vs, 1, Len(vs) - 1), 1),
       visits |-> vs,
       d |-> ObjAt(m, loc.base, T), s |-> source]

store(m, loc, T, ES, source) ==
  LET vs == simd_members(ObjAt(m, loc.base, T), source, << >>, << >>)
  IN  [mem |-> StoreMembers(m, loc, T, ES, source, vs, 1), visits |-> vs,
       d |-> ObjAt(m, loc.base, T), s |-> source]

\* The subobject functor of load_rvalue: the element itself or one field.
Subobject(f, x) ==
  IF f = "first" THEN x.first ELSE IF f = "second" THEN x.second ELSE x

\* dest[i] = src for every call of the lambda of load_rvalue in lane i.
RECURSIVE RvalueMembers(_, _, _, _, _)
RvalueMembers(result, elem, vs, n, i) ==
  IF n > Len(vs) THEN result
  ELSE RvalueMembers(
         SetAt(result, vs[n].d,
               Simd([GetAt(result, vs[n].d).lanes EXCEPT ![i] = GetAt(elem, vs[n].s).v])),
         elem, vs, n + 1, i)

\* The loop of load_rvalue over the lanes, from lane i on; base is the
\* array of scalar instances, f the subobject functor.
RECURSIVE RvalueLoop(_, _, _, _, _, _)
RvalueLoop(base, ix, f, i, result, log) ==
  IF i > SimdSize THEN [result |-> result, visits |-> log]
  ELSE LET elem == Subobject(f, base[get_index(ix, i) + 1])
           vs   == simd_members(result, elem, << >>, << >>)
       IN  RvalueLoop(base, ix, f, i + 1, RvalueMembers(result, elem, vs, 1, i), log \o vs)

\* load_rvalue<BaseType>(base, idx, subobject); f = "self" is the overload
\* without subobject.
load_rvalue(BT, base, ix, f) ==
  RvalueLoop(base, ix, f, 1, DefaultMirror(BT), << >>)

\* where(mask_, d) = s for every call of the lambda of operator=.
RECURSIVE WhereMembers(_, _, _, _, _)
WhereMembers(msk, dest, source, vs, n) ==
  IF n > Len(vs) THEN dest
  ELSE WhereMembers(msk,
         SetAt(dest, vs[n].d, LeafWhere(msk, GetAt(dest, vs[n].d), GetAt(source, vs[n].s))),
         source, vs, n + 1)

\* where(mask, dest) = source.
where_assign_unmasked(msk, dest, source) == source

where_assign(msk, dest, source) ==
  WhereMembers(msk, dest, source, simd_members(dest, source, << >>, << >>), 1)

-----------------------------------------------------------------------------
(* The state: the caller's memory and scalar type, and what the last call  *)
(* of the library took and returned.                                       *)

VARIABLES
  ty,      \* the scalar type T of the instances in memory
  es,      \* ElementSize, in cells: the distance between two instances
  mem,     \* the memory
  op,      \* the last operation called
  prevop,  \* the operation called before it
  res,     \* the structure-of-simd value the caller holds
  visits,  \* the calls func(d, s) the last operation made, in order
  call,    \* the operands d and s of its (last) call of simd_members
  idx,     \* the index list of the last indexed location or load_rvalue
  sel,     \* the subobject functor of the last load_rvalue
  mask,    \* the mask of the last where
  src      \* the source assigned by the last where

vars == <<ty, es, mem, op, prevop, res, visits, call, idx, sel, mask, src>>

NoVal == [k |-> "none"]

\* The index lists: SimdSize element positions inside a block.
IndexLists == [Lanes -> 0..(SimdSize - 1)]

Masks == [Lanes -> BOOLEAN]

\* base[k] of load_rvalue: the instances of block A, by value.
BaseArray == [k \in 1..SimdSize |-> ValAt(mem, ABase + (k - 1) * es, ty)]

\* The type of Subobject(sel, x) for x of type T.
SubType(T, f) == IF f = "first" THEN T.first ELSE IF f = "second" THEN T.second ELSE T

Selectors(T) == IF T.k = "pair" THEN {"self", "first", "second"} ELSE {"self"}

\* A structure-of-simd value of the shape of t with lane values of its own.
RECURSIVE SourceLike(_, _)
SourceLike(t, tag) ==
  IF t.k = "simd" THEN Simd([i \in Lanes |-> 1000 + tag * 10 + i])
  ELSE IF t.k = "pair"
    THEN PairV(SourceLike(t.first, tag * 10 + 1), SourceLike(t.second, tag * 10 + 2))
  ELSE VecV([j \in 1..Len(t.elems) |-> SourceLike(t.elems[j], tag * 10 + 2 + j)])

\* Same composite kind at every depth, same vector lengths.
RECURSIVE SameShape(_, _)
SameShape(a, b) ==
  IF IsLeafVal(a) \/ IsLeafVal(b) THEN IsLeafVal(a) /\ IsLeafVal(b)
  ELSE IF a.k # b.k THEN FALSE
  ELSE IF a.k = "pair" THEN SameShape(a.first, b.first) /\ SameShape(a.second, b.second)
  ELSE /\ Len(a.elems) = Len(b.elems)
       /\ \A j \in 1..Len(a.elems) : SameShape(a.elems[j], b.elems[j])

Init ==
  \E T \in Types, L \in 0..MaxLen, pad \in 0..1, gap \in 0..1, junk \in {-1, -2} :
    /\ ty = T
    /\ es = Sizeof(T) + pad * Alignof(T)
    /\ mem = InitialMemory(T, L, Sizeof(T) + pad * Alignof(T), gap, junk)
    /\ op = "init"
    /\ prevop = "none"
    /\ res = NoVal
    /\ visits = << >>
    /\ call = [d |-> NoVal, s |-> NoVal]
    /\ idx = << >>
    /\ sel = "none"
    /\ mask = << >>
    /\ src = NoVal

\* auto m = simdized_value<SimdSize>(a[0]);
Simdize ==
  /\ op = "init"
  /\ res' = simdized_value(ty, BaseArray[1])
  /\ op' = "simdized_value"
  /\ prevop' = op
  /\ UNCHANGED <<ty, es, mem, visits, call, idx, sel, mask, src>>

\* simd_members(m, a[0], func) and simd_members(m, m2, func) with m2 a second
\* structure-of-simd value of the shape of m.
Visit ==
  /\ op \in {"simdized_value", "load", "load_rvalue"}
  /\ \E s \in {Subobject(sel, BaseArray[1]), SourceLike(res, 1)} :
       /\ visits' = simd_members(res, s, << >>, << >>)
       /\ call' = [d |-> res, s |-> s]
  /\ op' = "simd_members"
  /\ prevop' = op
  /\ UNCHANGED <<ty, es, mem, res, idx, sel, mask, src>>

\* auto m = load<ElementSize>(linear_location<T, SimdSize>(&a[0]));
LoadLinear ==
  /\ op = "init"
  /\ ty.k # "leaf"
  /\ LET r == load(mem, linear_location(ABase), ty, es)
     IN  /\ res' = r.result
         /\ visits' = r.visits
         /\ call' = [d |-> r.d, s |-> r.s]
  /\ op' = "load"
  /\ prevop' = op
  /\ idx' = << >>
  /\ UNCHANGED <<ty, es, mem, sel, mask, src>>

\* auto m = load<ElementSize>(indexed_location<T, SimdSize, IndexArray>(&a[0], ix));
LoadIndexed ==
  /\ op = "init"
  /\ ty.k # "leaf"
  /\ \E ix \in IndexLists :
       LET r == load(mem, indexed_location(ABase, ix), ty, es)
       IN  /\ res' = r.result
           /\ visits' = r.visits
           /\ call' = [d |-> r.d, s |-> r.s]
           /\ idx' = ix
  /\ op' = "load_indexed"
  /\ prevop' = op
  /\ UNCHANGED <<ty, es, mem, sel, mask, src>>

\* store<ElementSize>(linear_location<T, SimdSize>(&b[0]), m);
StoreLinear ==
  /\ op \in {"load", "load_indexed"}
  /\ SameShape(ObjAt(mem, BBase(es), ty), res)
  /\ LET r == store(mem, linear_location(BBase(es)), ty, es, res)
     IN  /\ mem' = r.mem
         /\ visits' = r.visits
         /\ call' = [d |-> r.d, s |-> r.s]
  /\ op' = "store"
  /\ prevop' = op
  /\ UNCHANGED <<ty, es, res, idx, sel, mask, src>>

\* store<ElementSize>(indexed_location<T, SimdSize, IndexArray>(&b[0], ix), m);
StoreIndexed ==
  /\ op = "load"
  /\ SameShape(ObjAt(mem, BBase(es), ty), res)
  /\ \E ix \in IndexLists :
       LET r == store(mem, indexed_location(BBase(es), ix), ty, es, res)
       IN  /\ mem' = r.mem
           /\ visits' = r.visits
           /\ call' = [d |-> r.d, s |-> r.s]
           /\ idx' = ix
  /\ op' = "store_indexed"
  /\ prevop' = op
  /\ UNCHANGED <<ty, es, res, sel, mask, src>>

\* auto m = load_rvalue<BaseType>(a, ix) and load_rvalue<BaseType>(a, ix, subobject).
LoadRvalue ==
  /\ op = "init"
  /\ \E ix \in IndexLists, f \in Selectors(ty) :
       /\ SubType(ty, f).k # "leaf"
       /\ LET r == load_rvalue(SubType(ty, f), BaseArray, ix, f)
          IN  /\ res' = r.result
              /\ visits' = r.visits
              /\ call' = [d |-> r.result,
                          s |-> Subobject(f, BaseArray[get_index(ix, SimdSize) + 1])]
       /\ idx' = ix
       /\ sel' = f
  /\ op' = "load_rvalue"
  /\ prevop' = op
  /\ UNCHANGED <<ty, es, mem, mask, src>>

\* where(msk, m) = m2;
WhereAssign ==
  /\ op = "load"
  /\ \E msk \in Masks :
       /\ res' = where_assign(msk, res, SourceLike(res, 1))
       /\ mask' = msk
  /\ src' = SourceLike(res, 1)
  /\ visits' = simd_members(res, SourceLike(res, 1), << >>, << >>)
  /\ call' = [d |-> res, s |-> SourceLike(res, 1)]
  /\ op' = "where"
  /\ prevop' = op
  /\ UNCHANGED <<ty, es, mem, idx, sel>>

Next ==
  \/ Simdize
  \/ Visit
  \/ LoadLinear
  \/ LoadIndexed
  \/ StoreLinear
  \/ StoreIndexed
  \/ LoadRvalue
  \/ WhereAssign

Spec == Init /\ [][Next]_vars

-----------------------------------------------------------------------------
(* Vocabulary of the properties.                                           *)

\* The paths of the leaves of a value.
RECURSIVE LeafPathSet(_)
LeafPathSet(t) ==
  IF IsLeafVal(t) THEN { << >> }
  ELSE IF t.k = "pair"
    THEN {<<StepFirst>> \o p : p \in LeafPathSet(t.first)}
         \cup {<<StepSecond>> \o p : p \in LeafPathSet(t.second)}
  ELSE UNION {{<<StepElem(j - 1)>> \o p : p \in LeafPathSet(t.elems[j])} : j \in 1..Len(t.elems)}

\* Position of a step among its siblings: first before second, elements by index.
Rank(st) == IF st[1] = "first" THEN 0 ELSE IF st[1] = "second" THEN 1 ELSE st[2]

\* p comes before q in depth-first, left-to-right order.
RECURSIVE PathLess(_, _)
PathLess(p, q) ==
  IF p = << >> \/ q = << >> THEN FALSE
  ELSE IF Head(p) = Head(q) THEN PathLess(Tail(p), Tail(q))
  ELSE Rank(Head(p)) < Rank(Head(q))

\* The operations that call simd_members exactly once.
SingleCallOps == {"simd_members", "load", "load_indexed", "store", "store_indexed", "where"}

\* No vector is an element (at any depth) of another vector.
RECURSIVE HasVec(_)
HasVec(T) ==
  IF T.k = "leaf" THEN FALSE
  ELSE IF T.k = "vec" THEN TRUE
  ELSE HasVec(T.first) \/ HasVec(T.second)

RECURSIVE NoVecInVec(_)
NoVecInVec(T) ==
  IF T.k = "leaf" THEN TRUE
  ELSE IF T.k = "vec" THEN ~HasVec(T.elem)
  ELSE NoVecInVec(T.first) /\ NoVecInVec(T.second)

\* m is a structure-of-simd value of the shape of the scalar value v.
IsMirrorOf(m, v) ==
  /\ SameShape(m, v)
  /\ \A p \in LeafPathSet(m) :
       /\ GetAt(m, p).k = "simd"
       /\ DOMAIN GetAt(m, p).lanes = Lanes

\* The leaves of T that lie inside the instance, each with its offset.
RECURSIVE InlineLeaves(_)
InlineLeaves(T) ==
  IF T.k = "leaf" THEN {[path |-> << >>, off |-> 0]}
  ELSE IF T.k = "vec" THEN {}
  ELSE {[path |-> <<StepFirst>> \o l.path, off |-> l.off] : l \in InlineLeaves(T.first)}
       \cup {[path |-> <<StepSecond>> \o l.path, off |-> OffsetSecond(T) + l.off] :
               l \in InlineLeaves(T.second)}

IsPermutation(ix) == {ix[i] : i \in DOMAIN ix} = 0..(SimdSize - 1)

VisitIndices == 1..Len(visits)

-----------------------------------------------------------------------------
C2_MirrorHasShapeOfScalar ==
  op = "simdized_value" => IsMirrorOf(res, BaseArray[1])

(* C3: load_rvalue returns a mirror of the shape of the gathered scalar    *)
(* instances whose lane i holds, in every leaf, the leaf of the instance   *)
(* the accessor (followed by subobject) yields for lane i.                 *)
C3_RvalueGathersEveryLeaf ==
  op = "load_rvalue" =>
    \A i \in Lanes :
      LET elem == Subobject(sel, BaseArray[get_index(idx, i) + 1])
      IN  /\ IsMirrorOf(res, elem)
          /\ \A p \in LeafPathSet(elem) : GetAt(res, p).lanes[i] = GetAt(elem, p).v

(* C4: after a contiguous load from base b, lane i of the mirror leaf of   *)
(* every leaf at offset o inside the instance is the cell at               *)
(* b + o + i * ElementSize.                                                *)
C4_LinearLoadLanes ==
  op = "load" =>
    \A l \in InlineLeaves(ty) : \A i \in Lanes :
      /\ GetAt(res, l.path).k = "simd"
      /\ GetAt(res, l.path).lanes[i] = mem[ABase + l.off + (i - 1) * es]

C4_Witness ==
  /\ op = "load"
  /\ ty = PairT(Leaf, PairT(Leaf, Leaf))
  /\ es > Sizeof(ty)
  /\ res.second.second.lanes[SimdSize] = mem[ABase + 2 + (SimdSize - 1) * es]
  /\ res.second.second.lanes[1] # res.second.second.lanes[SimdSize]

(* C5: contiguous load from block A followed by contiguous store of the    *)
(* loaded mirror into block B makes every instance of B equal to the       *)
(* instance of A at the same position, for a pair and for a sequence.      *)
C5_LoadStoreRoundTrip ==
  (op = "store" /\ prevop = "load" /\ ty \in {PairT(Leaf, Leaf), VecT(Leaf)}) =>
    \A n \in 0..(SimdSize - 1) :
      ValAt(mem, BBase(es) + n * es, ty) = ValAt(mem, ABase + n * es, ty)

(* C6: for an index list k that is a permutation, lane i of every leaf of  *)
(* the indexed load is lane k[i] of the contiguous load, and storing the   *)
(* mirror contiguously makes instance i of block B equal instance k[i] of  *)
(* block A.                                                                *)
C6_GatherIsPermutedLoad ==
  /\ (op = "load_indexed" /\ IsPermutation(idx)) =>
       \A p \in LeafPathSet(res) : \A i \in Lanes :
         GetAt(res, p).lanes[i]
           = GetAt(load(mem, linear_location(ABase), ty, es).result, p).lanes[idx[i] + 1]
  /\ (op = "store" /\ prevop = "load_indexed" /\ IsPermutation(idx)) =>
       \A i \in Lanes :
         ValAt(mem, BBase(es) + (i - 1) * es, ty) = ValAt(mem, ABase + idx[i] * es, ty)

C8_SequenceLoad ==
  (op = "load" /\ ty = VecT(Leaf)) =>
    res = VecV([j \in 1..Len(BaseArray[1].elems) |->
                  Simd([i \in Lanes |-> BaseArray[i].elems[j].v])])

StoreTargets(m, ES, T, off) ==
  {[a |-> GetAt(ObjAt(m, BBase(ES), T), p).addr + off[i] * ES, p |-> p, i |-> i] :
     p \in LeafPathSet(ObjAt(m, BBase(ES), T)), i \in Lanes}

\* The element offsets of the lanes of a linear location.
LinearOffsets == [i \in Lanes |-> i - 1]

(* C10 as stated: a store sets the cell at the computed address of every   *)
(* leaf and lane to that lane of the source leaf, changes no other cell    *)
(* and leaves the source mirror alone; a load changes no cell.             *)
C10_StoreSetsEveryLane ==
  [][/\ op' \in {"store", "store_indexed"} =>
          LET tg == StoreTargets(mem, es, ty, IF op' = "store" THEN LinearOffsets ELSE idx')
          IN  /\ DOMAIN mem' = DOMAIN mem
              /\ \A t \in tg : mem'[t.a] = GetAt(res, t.p).lanes[t.i]
              /\ \A c \in DOMAIN mem : (\A t \in tg : t.a # c) => mem'[c] = mem[c]
              /\ res' = res
     /\ op' \in {"load", "load_indexed", "load_rvalue"} => mem' = mem]_vars

(* C10 as amended: a store writes exactly the cells at the computed        *)
(* addresses; each holds the lane of the source leaf of one of the (leaf,  *)
(* lane) pairs that address it, so of lane i itself when no other pair     *)
(* addresses the cell; no other cell and not the source mirror changes,    *)
(* and a load changes no cell.                                             *)
C10_StoreFrame ==
  [][/\ op' \in {"store", "store_indexed"} =>
          LET tg == StoreTargets(mem, es, ty, IF op' = "store" THEN LinearOffsets ELSE idx')
          IN  /\ DOMAIN mem' = DOMAIN mem
              /\ \A t \in tg : \E u \in tg : u.a = t.a /\ mem'[t.a] = GetAt(res, u.p).lanes[u.i]
              /\ \A t \in tg : (\A u \in tg : u.a = t.a => u = t)
                                 => mem'[t.a] = GetAt(res, t.p).lanes[t.i]
              /\ \A c \in DOMAIN mem : (\A t \in tg : t.a # c) => mem'[c] = mem[c]
              /\ res' = res
     /\ op' \in {"load", "load_indexed", "load_rvalue"} => mem' = mem]_vars

C10_Witness ==
  /\ op = "store_indexed"
  /\ ty = PairT(Leaf, Leaf)
  /\ \A i \in Lanes : idx[i] = 0
  /\ res.first.lanes[1] # res.first.lanes[SimdSize]
  /\ mem[BBase(es)] = res.first.lanes[SimdSize]
  /\ mem[BBase(es) + es] = 0

====
